---- MODULE Spec2Model ----
(***************************************************************************)
(* The iMessage Legacy channel plugin (src/setup.js, second plugin text,   *)
(* lines 594-1147): a poller that reads new rows of the message store,     *)
(* filters them, persists a watermark and hands events to the host         *)
(* dispatch pipeline, arbitrated between overlapping instances by a lease  *)
(* file.                                                                   *)
(***************************************************************************)
EXTENDS Integers, Sequences, FiniteSets, TLC

VARIABLES store, leaseFile, stateFile, lastWriter, inst,
          book, contactsDb, contactCache, lookups

vars == <<store, leaseFile, stateFile, lastWriter, inst,
          book, contactsDb, contactCache, lookups>>

\* the address book and the module-level state of resolveContactName
contactVars == <<book, contactsDb, contactCache, lookups>>

(***************************************************************************)
(* Bounds of the model.                                                    *)
(***************************************************************************)
\* rows the message store may grow to
MaxRows == 3
\* delivery callbacks the pipeline may make for one event
MaxReplies == 1
\* rows the store may grow to while two instances overlap
MaxLeaseRows == 2
\* rows the store may grow to when conversations of several kinds mix
MaxGroupRows == 4
\* digits in a row in the phone numbers given to normalizePhone
MaxDigits == 11
\* rows the store may grow to when a batch is to be filled
MaxBatchRows == 23
\* rows the store may grow to when the window of processedIds is to be filled
MaxWindowRows == 123

(***************************************************************************)
(* Strings are sequences of one-character strings; null is a value apart.  *)
(***************************************************************************)
NULL == <<"<null>">>
Falsy(s) == s = NULL \/ s = <<>>

DigitChars == {"0", "1", "2", "3", "4", "5", "6", "7", "8", "9"}
PhoneChars == DigitChars \cup {"+"}
IsPhoneChar(c) == c \in PhoneChars

Max(a, b) == IF a >= b THEN a ELSE b

\* Body(v), with v evaluated once
WithValue(v, Body(_)) == CHOOSE out \in {Body(x) : x \in {v}} : TRUE

\* String.prototype.trim on the model's strings: leading and trailing blanks go
RECURSIVE TrimLeft(_)
TrimLeft(s) == IF s # <<>> /\ Head(s) = " " THEN TrimLeft(Tail(s)) ELSE s
RECURSIVE TrimRight(_)
TrimRight(s) ==
    IF s # <<>> /\ s[Len(s)] = " " THEN TrimRight(SubSeq(s, 1, Len(s) - 1)) ELSE s
Trim(s) == TrimRight(TrimLeft(s))

\* !msg.text?.trim()
BlankText(t) == t = NULL \/ Trim(t) = <<>>

\* a plausible slip: the test for a leading plus is left out
normalizePhoneNoPlusTest(phone) ==
    IF Falsy(phone) THEN NULL
    ELSE LET n == SelectSeq(phone, IsPhoneChar)
         IN  IF Len(n) = 10 THEN <<"+", "1">> \o n
             ELSE IF Len(n) = 11 /\ n[1] = "1" THEN <<"+">> \o n
             ELSE <<"+">> \o n

normalizePhone(phone) ==
    IF Falsy(phone) THEN NULL
    ELSE LET n == SelectSeq(phone, IsPhoneChar)
         IN  IF Len(n) > 0 /\ n[1] = "+" THEN n
             ELSE IF Len(n) = 10 THEN <<"+", "1">> \o n
             ELSE IF Len(n) = 11 /\ n[1] = "1" THEN <<"+">> \o n
             ELSE <<"+">> \o n

Star == <<"*">>

\* a plausible slip: an empty allow list read as "no restriction"
isAllowedEmptyOpen(sender, allowFrom) ==
    IF Falsy(sender) THEN FALSE
    ELSE IF Len(allowFrom) = 0 THEN TRUE
    ELSE IF \E j \in 1..Len(allowFrom) : allowFrom[j] = Star THEN TRUE
    ELSE LET ns == normalizePhone(sender)
         IN  \E j \in 1..Len(allowFrom) :
                 \/ allowFrom[j] = sender
                 \/ (~Falsy(ns) /\ normalizePhone(allowFrom[j]) = ns)

isAllowed(sender, allowFrom) ==
    IF Falsy(sender) \/ Len(allowFrom) = 0 THEN FALSE
    ELSE IF \E j \in 1..Len(allowFrom) : allowFrom[j] = Star THEN TRUE
    ELSE LET ns == normalizePhone(sender)
         IN  \E j \in 1..Len(allowFrom) :
                 \/ allowFrom[j] = sender
                 \/ (~Falsy(ns) /\ normalizePhone(allowFrom[j]) = ns)

\* cfg.channels["imessage-legacy"] as the operator wrote it: keys are the
\* options present in the file.  A file that sets allowFrom and nothing else:
Channel(allowFrom) ==
    [allowFrom |-> allowFrom, keys |-> {"allowFrom"}, dmPolicy |-> "allowlist",
     resolveContactNames |-> TRUE, ownerNumbers |-> <<>>, allowedNumbers |-> <<>>]

Channels(allows) == {Channel(a) : a \in allows}

\* lines 873-884: account.config as resolveAccount builds it (?? gives the
\* default for an option that is absent)
resolveAccount(c) ==
    [allowFrom |-> IF "allowFrom" \in c.keys THEN c.allowFrom ELSE <<>>,
     dmPolicy |-> IF "dmPolicy" \in c.keys THEN c.dmPolicy ELSE "allowlist",
     resolveContactNames |-> IF "resolveContactNames" \in c.keys
                             THEN c.resolveContactNames ELSE TRUE]

\* (account.config.allowFrom ?? []).map(s => normalizePhone(s) || s)
MapAllowFrom(cfgAllow) ==
    [j \in 1..Len(cfgAllow) |->
        LET n == normalizePhone(cfgAllow[j])
        IN  IF Falsy(n) THEN cfgAllow[j] ELSE n]

(***************************************************************************)
(* The inputs: senders, allow lists, rows, instance tokens.                *)
(***************************************************************************)
Owner == <<"+", "1", "5", "5", "5", "1", "2", "3", "4", "5", "6", "7">>
OwnerTen == <<"5", "5", "5", "1", "2", "3", "4", "5", "6", "7">>
OwnerDashed == <<"5", "5", "5", "-", "1", "2", "3", "-", "4", "5", "6", "7">>
Stranger == <<"+", "1", "5", "5", "5", "9", "8", "7", "6", "5", "4", "3">>
MailA == <<"a", "@", "b">>
MailX == <<"x", "@", "y">>

Hi == <<"h", "i">>
Blank == <<" ">>

\* associated_message_type values used by the rows: a "like" and its removal
TapLike == 2001
TapRemoveLike == 3001

\* a type without an entry in TAPBACK_TYPES, and the end of the tapback range
TapNoEmoji == 2006
TapRangeEnd == 4000

\* c.style of a group conversation
GroupStyle == 43
\* c.style of a direct conversation
DirectStyle == 45

ChatOne == <<"c", "h", "a", "t", "1">>
ChatTwo == <<"c", "h", "a", "t", "2">>

\* the columns of a fetched row that the code reads.  associated_message_guid
\* is the ROWID of the message the guid names, 0 when the column is null.
\* A direct conversation is identified by the sender's handle.
Row(sender, text, fromMe, assoc, att, files, group) ==
    [sender |-> sender, text |-> text, is_from_me |-> fromMe,
     associated_message_type |-> assoc, cache_has_attachments |-> att,
     filesExist |-> files,
     style |-> IF group THEN GroupStyle ELSE DirectStyle,
     chat_identifier |-> IF group THEN ChatOne ELSE sender,
     associated_message_guid |-> 0]

RText == Row(Owner, Hi, 0, 0, 0, FALSE, FALSE)
RStranger == Row(Stranger, Hi, 0, 0, 0, FALSE, FALSE)
RMail == Row(MailA, Hi, 0, 0, 0, FALSE, FALSE)
RNoSender == Row(NULL, Hi, 0, 0, 0, FALSE, FALSE)
RFromMe == Row(NULL, Hi, 1, 0, 0, FALSE, FALSE)
RBlank == Row(Owner, Blank, 0, 0, 0, FALSE, FALSE)
REmpty == Row(Owner, NULL, 0, 0, 0, FALSE, FALSE)
RAttach == Row(Owner, NULL, 0, 0, 1, TRUE, FALSE)
RAttachGone == Row(Owner, NULL, 0, 0, 1, FALSE, FALSE)
RTapAdd == Row(Owner, Hi, 0, TapLike, 0, FALSE, FALSE)
RTapRemove == Row(Owner, Hi, 0, TapRemoveLike, 0, FALSE, FALSE)
\* a "like" of the message with ROWID 1, a tapback type without emoji, and
\* a row whose type lies above the tapback range
RTapRef == [RTapAdd EXCEPT !.associated_message_guid = 1]
RTapNoEmoji == Row(Owner, Hi, 0, TapNoEmoji, 0, FALSE, FALSE)
RAssocHigh == Row(Owner, Hi, 0, TapRangeEnd, 0, FALSE, FALSE)
\* rows of group conversations: two senders in one conversation, and a
\* conversation known as a group by its identifier only
RGroupOne == Row(Owner, Hi, 0, 0, 0, FALSE, TRUE)
RGroupOneB == Row(Stranger, Hi, 0, 0, 0, FALSE, TRUE)
RGroupTwo == [RText EXCEPT !.chat_identifier = ChatTwo]

\* the values Math.random().toString(36).slice(2, 6) may take
Tokens == {"k3f9", "x7q2"}
NoFile == "<absent>"

Instances == {"A", "B"}

(***************************************************************************)
(* Program constants.                                                      *)
(***************************************************************************)
\* ORDER BY m.ROWID LIMIT 20
BatchLimit == 20
\* state.processedIds.slice(-100)
MaxProcessed == 100

\* TAPBACK_TYPES[type]: the types that have an emoji
HasEmoji(type) == type \in 2000..2005

\* TAPBACK_TYPES[type], each emoji one character of the model's strings
Emoji(type) ==
    CASE type = 2000 -> <<"<love>">>
      [] type = 2001 -> <<"<like>">>
      [] type = 2002 -> <<"<dislike>">>
      [] type = 2003 -> <<"<laugh>">>
      [] type = 2004 -> <<"<emphasis>">>
      [] type = 2005 -> <<"<question>">>
      [] OTHER -> NULL

\* the literals of the template of line 1028
ReactedTo ==
    <<" ", "r", "e", "a", "c", "t", "e", "d", " ", "t", "o", ":", " ", "\"">>
Quote == <<"\"">>
MessageWord == <<"m", "e", "s", "s", "a", "g", "e">>

\* the session keys of lines 1070-1072
DirectKey ==
    <<"a", "g", "e", "n", "t", ":", "m", "a", "i", "n", ":", "m", "a", "i", "n">>
GroupKeyPrefix ==
    <<"a", "g", "e", "n", "t", ":", "m", "a", "i", "n", ":", "i", "m", "e", "s", "s", "a", "g", "e", "-">> \o
    <<"l", "e", "g", "a", "c", "y", ":", "g", "r", "o", "u", "p", ":">>
ChatWord == <<"c", "h", "a", "t">>

(***************************************************************************)
(* Files.  The state file holds a JSON document or is absent; the lease    *)
(* file holds a token or is absent.                                        *)
(***************************************************************************)
AbsentState == [kind |-> "absent", lastRowId |-> 0, processedIds |-> <<>>]
JsonState(last, ids) == [kind |-> "json", lastRowId |-> last, processedIds |-> ids]
\* a state file that cannot be read, one that is not JSON, and the JSON
\* documents null and 5
UnreadableState == [kind |-> "unreadable", lastRowId |-> 0, processedIds |-> <<>>]
GarbageState == [kind |-> "garbage", lastRowId |-> 0, processedIds |-> <<>>]
NullState == [kind |-> "null", lastRowId |-> 0, processedIds |-> <<>>]
NumberState == [kind |-> "number", lastRowId |-> 0, processedIds |-> <<>>]
\* what a write cut short by a crash may leave: a prefix of the document
PartialState == [kind |-> "partial", lastRowId |-> 0, processedIds |-> <<>>]

\* fs.writeFileSync(ACTIVE_INSTANCE_FILE, instanceId): the lease after a claim
claimActiveInstance(instanceId, lease, writeOk) ==
    IF writeOk THEN instanceId ELSE lease

\* readFileSync throws on an absent file, and the catch answers false
isActiveInstance(instanceId, lease) ==
    IF lease = NoFile THEN FALSE ELSE lease = instanceId

(***************************************************************************)
(* The message store: row n of the sequence has ROWID n.                   *)
(***************************************************************************)
MaxRowId == Len(store)

RECURSIVE FetchFrom(_, _)
FetchFrom(id, n) ==
    IF id > Len(store) \/ n = 0 THEN <<>>
    ELSE IF store[id].is_from_me = 0 THEN <<id>> \o FetchFrom(id + 1, n - 1)
    ELSE FetchFrom(id + 1, n)

\* a plausible slip: the query without its LIMIT
FetchNoLimit(last) == FetchFrom(last + 1, Len(store))

\* WHERE m.ROWID > ? AND m.is_from_me = 0 ... ORDER BY m.ROWID LIMIT 20
Fetch(last) == FetchFrom(last + 1, BatchLimit)

InSeq(x, s) == \E j \in 1..Len(s) : s[j] = x

\* a plausible slip: slice(0, 100) for slice(-100)
KeepFirst(s, n) == IF Len(s) > n THEN SubSeq(s, 1, n) ELSE s

\* state.processedIds.slice(-100)
KeepLast(s, n) == IF Len(s) > n THEN SubSeq(s, Len(s) - n + 1, Len(s)) ELSE s

(***************************************************************************)
(* Sending.  The platform send is one run of osascript by execAsync; its   *)
(* outcome is "ok" when the process exits with 0, "exit" when it exits     *)
(* with another code or is killed, "throw" when exec itself throws.        *)
(***************************************************************************)
Outcomes == {"ok", "exit", "throw"}

\* lines 823-826: backslashes and double quotes get a backslash, carriage
\* returns go
RECURSIVE Escape(_)
Escape(text) ==
    IF text = <<>> THEN <<>>
    ELSE LET c == Head(text)
         IN  (IF c = "\\" THEN <<"\\", "\\">>
              ELSE IF c = "\"" THEN <<"\\", "\"">>
              ELSE IF c = "\r" THEN <<>>
              ELSE <<c>>) \o Escape(Tail(text))

\* a plausible slip: a failed attempt is followed by a second one, whose
\* outcome is the answer
sendIMessageRetry(recipient, text, outcome) ==
    IF text = NULL
    THEN [attempts |-> 0, returned |-> FALSE, threw |-> TRUE, escaped |-> NULL]
    ELSE [attempts |-> IF outcome = "ok" THEN 1 ELSE 2, returned |-> TRUE,
          threw |-> FALSE, escaped |-> Escape(text)]

\* lines 822-837: what one call of sendIMessage did: the runs of osascript,
\* the value returned, whether the call threw, and the text put in the
\* script.  text.replace throws, outside the try, for a text that is no
\* string.
sendIMessage(recipient, text, outcome) ==
    IF text = NULL
    THEN [attempts |-> 0, returned |-> FALSE, threw |-> TRUE, escaped |-> NULL]
    ELSE [attempts |-> 1, returned |-> (outcome = "ok"), threw |-> FALSE,
          escaped |-> Escape(text)]

\* lines 842-858: the same for one call of sendMediaFile; the path goes
\* into the script as it is
sendMediaFile(recipient, filePath, outcome) ==
    [attempts |-> 1, returned |-> (outcome = "ok"), threw |-> FALSE,
     escaped |-> filePath]

(***************************************************************************)
(* Contacts.  book is the AddressBook database: found says whether a file  *)
(* AddressBook-v22.abcddb lies under Sources, rows are its phone numbers,  *)
(* in the order the database yields them, each with the display name of    *)
(* the record that owns it (null when the record has no name).             *)
(* contactsDb: the handle is open.  contactCache: the entries of the Map,  *)
(* normalized number and name.  lookups: the normalized numbers for which  *)
(* the query of line 708 ran since the cache was last cleared, in order.   *)
(***************************************************************************)
NoBook == [found |-> FALSE, rows |-> <<>>]

NoContacts(b) ==
    /\ book = b
    /\ contactsDb = FALSE
    /\ contactCache = {}
    /\ lookups = <<>>

IsDigit(c) == c \in DigitChars

\* String.prototype.endsWith, which LIKE '%digits' amounts to
EndsWith(s, suffix) ==
    /\ Len(s) >= Len(suffix)
    /\ SubSeq(s, Len(s) - Len(suffix) + 1, Len(s)) = suffix

\* lines 707-717: the name of the first row whose number ends with the last
\* seven digits of phone, null when no row does
ContactQuery(phone) ==
    LET digits == KeepLast(SelectSeq(phone, IsDigit), 7)
        hits == SelectSeq(book.rows, LAMBDA r : EndsWith(r.number, digits))
    IN  IF hits = <<>> THEN NULL ELSE hits[1].name

\* the module-level state resolveContactName works on
Contacts == [lookups |-> lookups, db |-> contactsDb, cache |-> contactCache]

\* lines 975-976: contactsDb = null and contactCache.clear()
Cleared == [lookups |-> <<>>, db |-> FALSE, cache |-> {}]

\* lines 678-728: the state after resolveContactName(phone)
resolveContactName(c, phone) ==
    IF Falsy(phone) THEN c
    ELSE LET normalized == normalizePhone(phone)
         IN  IF \E e \in c.cache : e.key = normalized THEN c
             ELSE IF ~(c.db \/ book.found) THEN c
             ELSE LET name == ContactQuery(phone)
                  IN  [lookups |-> Append(c.lookups, normalized),
                       db |-> TRUE,
                       cache |-> IF Falsy(name) THEN c.cache
                                 ELSE c.cache \cup {[name |-> name,
                                                     key |-> normalized]}]

RECURSIVE ResolveAll(_, _)
ResolveAll(c, phones) ==
    IF phones = <<>> THEN c
    ELSE ResolveAll(resolveContactName(c, Head(phones)), Tail(phones))

(***************************************************************************)
(* One instance: the closure of one startAccount call, with the history    *)
(* the properties read.                                                    *)
(*   phase     "none" before the call, "noop" when it returned () => {},   *)
(*             "started" once the poller exists                            *)
(*   events    ROWIDs handed to the pipeline (finalizeInboundContext)      *)
(*   dispatched ROWIDs for which dispatchReplyFromConfig was called        *)
(*   failed    ROWIDs whose hand-over raised; idled: markDispatchIdle ran  *)
(*   queued    ROWIDs put in toProcess of a batch that reached the loop    *)
(*   skipped   ROWIDs of toProcess dropped for an empty body and no media  *)
(*   batches   the non-empty results of the batch query, in order          *)
(*   claimed   the lease write of this instance succeeded                  *)
(*   sent      the events for which dispatchReplyFromConfig was called:    *)
(*             ROWID, Body and SessionKey, in order                        *)
(*   queryFailed  the last poll() ended in the catch of line 1124 on a     *)
(*             store query                                                 *)
(*   bootFile  what the state file was when the instance started           *)
(*   timers    the timers set by setTimeout that neither fired nor were    *)
(*             cleared; pollTimer: the one whose handle pollTimer holds    *)
(*             is among them                                               *)
(*   polls     the calls of poll() that have not returned                  *)
(*   sends     the calls of sendIMessage and sendMediaFile made for the    *)
(*             event under dispatch: function, outcome of the platform     *)
(*             send, and what the call did                                 *)
(*   channel   the channel configuration the instance was started with     *)
(*   asked     the numbers resolveContactName was called with in the step  *)
(*             under way, in order (empty between steps)                   *)
(* phase is "threw" when the startAccount call rejected.                   *)
(***************************************************************************)
Fresh ==
    [allowFrom |-> <<>>, cfgAllow |-> <<>>,
     lastRowId |-> 0, processedIds |-> <<>>, instanceId |-> "",
     phase |-> "none", running |-> FALSE, includeTapbacks |-> TRUE,
     pollTimer |-> FALSE, dbOpen |-> FALSE,
     toProcess |-> <<>>, k |-> 0, awaiting |-> FALSE, replies |-> 0,
     events |-> <<>>, dispatched |-> <<>>, failed |-> {}, idled |-> {},
     queued |-> <<>>, skipped |-> {}, batches |-> <<>>,
     claimed |-> FALSE, coldStart |-> FALSE, startMax |-> 0, startLast |-> 0,
     sent |-> <<>>, queryFailed |-> FALSE, bootFile |-> "none",
     timers |-> 0, polls |-> 0, resolveNames |-> TRUE, asked |-> <<>>,
     channel |-> Channel(<<>>), sends |-> <<>>]

\* lines 957-958: JSON.parse yields null, or a number, and line 958 reads a
\* property of null, or (the plugin is an ES module, hence strict) assigns
\* one to a number: a TypeError outside the try of line 957
LoadThrows(file) == file.kind \in {"null", "number"}

\* lines 956-958: the default, overwritten by the parsed file when it exists
\* and parses (existsSync, readFileSync and JSON.parse are inside the try)
LoadState(file) ==
    IF file.kind = "json"
    THEN [lastRowId |-> file.lastRowId, processedIds |-> file.processedIds]
    ELSE [lastRowId |-> 0, processedIds |-> <<>>]

\* a plausible slip: no fallback to the store's maximum
InitialRowIdNoFallback(loaded) == loaded

\* lines 959-962: if (!state.lastRowId) state.lastRowId = MAX(ROWID) ?? 0
InitialRowId(loaded) == IF loaded = 0 THEN MaxRowId ELSE loaded

\* a plausible slip: the flag is lowered and the store closed, and the
\* pending timer is left to fire
cleanupLeavesTimer(p) ==
    IF ~p.running THEN p
    ELSE [p EXCEPT !.running = FALSE, !.dbOpen = FALSE]

\* lines 967-978
cleanup(p) ==
    IF ~p.running THEN p
    ELSE [p EXCEPT !.running = FALSE, !.pollTimer = FALSE, !.dbOpen = FALSE,
                   !.timers = IF p.pollTimer THEN @ - 1 ELSE @]

\* a plausible slip: the timer is not set again after a tick
ScheduleNever(p) == [p EXCEPT !.pollTimer = FALSE, !.polls = @ - 1]

\* lines 1128-1131: if (running) pollTimer = setTimeout(poll, pollMs), and
\* poll() returns
Schedule(p) ==
    [p EXCEPT !.pollTimer = p.running,
              !.timers = IF p.running THEN @ + 1 ELSE @,
              !.polls = @ - 1]

\* lines 1021-1029: the text a tapback row gets, if any
HasTapbackText(msg, includeTapbacks) ==
    /\ msg.associated_message_type >= 2000
    /\ msg.associated_message_type < 4000
    /\ includeTapbacks
    /\ HasEmoji(msg.associated_message_type)
    /\ msg.associated_message_type < 3000

\* lines 1021-1025: a row of the tapback range that is dropped
DroppedTapback(msg, includeTapbacks) ==
    /\ msg.associated_message_type >= 2000
    /\ msg.associated_message_type < 4000
    /\ \/ ~includeTapbacks
       \/ ~HasEmoji(msg.associated_message_type)
       \/ msg.associated_message_type >= 3000

\* lines 786-820: the text of the message a guid names, null when the guid
\* is null, names no row, or names a row without text
getReplyContext(guid) ==
    IF guid = 0 THEN NULL
    ELSE IF guid <= Len(store) /\ ~Falsy(store[guid].text) THEN store[guid].text
    ELSE NULL

\* line 1028: `${emoji} reacted to: "${context?.text || 'message'}"`
tapbackText(msg) ==
    LET context == getReplyContext(msg.associated_message_guid)
    IN  Emoji(msg.associated_message_type) \o ReactedTo
            \o (IF Falsy(context) THEN MessageWord ELSE context) \o Quote

\* a plausible slip: the row's own text is preferred to the tapback text
BodyTextOwnFirst(msg, includeTapbacks) ==
    IF ~Falsy(msg.text) THEN msg.text
    ELSE IF HasTapbackText(msg, includeTapbacks) THEN tapbackText(msg)
    ELSE <<>>

\* line 1063: msg.tapbackText || msg.text || ""
BodyText(msg, includeTapbacks) ==
    IF HasTapbackText(msg, includeTapbacks) THEN tapbackText(msg)
    ELSE IF Falsy(msg.text) THEN <<>>
    ELSE msg.text

\* String.prototype.startsWith, false for a null string (?.)
StartsWith(s, prefix) ==
    /\ s # NULL
    /\ Len(s) >= Len(prefix)
    /\ SubSeq(s, 1, Len(prefix)) = prefix

\* a value inside a template literal
Template(v) == IF v = NULL THEN <<"n", "u", "l", "l">> ELSE v

\* line 1041
isGroup(msg) == msg.style = GroupStyle \/ StartsWith(msg.chat_identifier, ChatWord)
\* line 1042
chatId(msg) == IF isGroup(msg) THEN msg.chat_identifier ELSE msg.sender
\* a plausible slip: a direct conversation keyed by its sender
sessionKeyBySender(msg) ==
    IF isGroup(msg) THEN GroupKeyPrefix \o Template(chatId(msg))
    ELSE DirectKey \o <<":">> \o Template(msg.sender)

\* a plausible slip: every group conversation under one key
sessionKeyOneGroup(msg) ==
    IF isGroup(msg) THEN GroupKeyPrefix ELSE DirectKey

\* lines 1070-1072
sessionKey(msg) ==
    IF isGroup(msg) THEN GroupKeyPrefix \o Template(chatId(msg)) ELSE DirectKey

\* the event handed to dispatchReplyFromConfig for row id (lines 1075-1099)
InboundEvent(p, id) ==
    [Body |-> BodyText(store[id], p.includeTapbacks), id |-> id,
     SessionKey |-> sessionKey(store[id])]

\* a plausible slip: the state is changed on a copy, and the row kept
ScanRowNoRecord(acc, id, allowFrom, includeTapbacks) ==
    LET msg == store[id]
    IN  IF Falsy(msg.sender) THEN acc
        ELSE IF ~isAllowed(msg.sender, allowFrom) THEN acc
        ELSE IF InSeq(id, acc.processedIds) THEN acc
        ELSE IF DroppedTapback(msg, includeTapbacks) THEN acc
        ELSE IF /\ BlankText(msg.text)
                /\ msg.cache_has_attachments = 0
                /\ ~HasTapbackText(msg, includeTapbacks) THEN acc
        ELSE [acc EXCEPT !.toProcess = Append(@, id)]

\* a plausible slip: the watermark is raised after the filters, not before
ScanRowAdvanceLate(acc, id, allowFrom, includeTapbacks) ==
    LET msg == store[id]
    IN  IF Falsy(msg.sender) THEN acc
        ELSE IF ~isAllowed(msg.sender, allowFrom) THEN acc
        ELSE IF InSeq(id, acc.processedIds) THEN acc
        ELSE LET acc2 == [acc EXCEPT !.lastRowId = Max(@, id),
                                     !.processedIds = Append(@, id)]
             IN  IF DroppedTapback(msg, includeTapbacks) THEN acc2
                 ELSE IF /\ BlankText(msg.text)
                         /\ msg.cache_has_attachments = 0
                         /\ ~HasTapbackText(msg, includeTapbacks) THEN acc2
                 ELSE [acc2 EXCEPT !.toProcess = Append(@, id)]

\* lines 1013-1034: the body of the for loop over msgs, for one row
ScanRow(acc, id, allowFrom, includeTapbacks) ==
    LET msg == store[id]
        acc1 == [acc EXCEPT !.lastRowId = Max(@, id)]
    IN  IF Falsy(msg.sender) THEN acc1
        ELSE IF ~isAllowed(msg.sender, allowFrom) THEN acc1
        ELSE IF InSeq(id, acc1.processedIds) THEN acc1
        ELSE LET acc2 == [acc1 EXCEPT !.processedIds = Append(@, id)]
             IN  IF DroppedTapback(msg, includeTapbacks) THEN acc2
                 ELSE IF /\ BlankText(msg.text)
                         /\ msg.cache_has_attachments = 0
                         /\ ~HasTapbackText(msg, includeTapbacks) THEN acc2
                 ELSE [acc2 EXCEPT !.toProcess = Append(@, id)]

RECURSIVE ScanRows(_, _, _, _)
ScanRows(acc, msgs, allowFrom, includeTapbacks) ==
    IF msgs = <<>> THEN acc
    ELSE WithValue(ScanRow(acc, Head(msgs), allowFrom, includeTapbacks),
                   LAMBDA next : ScanRows(next, Tail(msgs), allowFrom,
                                          includeTapbacks))

RECURSIVE SeqMax(_)
SeqMax(s) == IF s = <<>> THEN 0 ELSE Max(Head(s), SeqMax(Tail(s)))

\* a plausible slip: the watermark is taken from the rows kept for dispatch
ScanBatchFromKept(p, msgs) ==
    LET r == ScanRows([lastRowId |-> p.lastRowId, processedIds |-> p.processedIds,
                       toProcess |-> <<>>], msgs, p.allowFrom, p.includeTapbacks)
    IN  [r EXCEPT !.lastRowId = SeqMax(r.toProcess)]

\* lines 1012-1035: toProcess and the state after the loop over msgs
ScanBatch(p, msgs) ==
    ScanRows([lastRowId |-> p.lastRowId, processedIds |-> p.processedIds,
              toProcess |-> <<>>], msgs, p.allowFrom, p.includeTapbacks)

\* lines 1049-1065: is there a body or a media path to send on
HasContent(p, msg) ==
    LET media == msg.cache_has_attachments # 0 /\ p.dbOpen /\ msg.filesExist
        body == BodyText(msg, p.includeTapbacks)
    IN  Trim(body) # <<>> \/ media

\* lines 1119-1121 with the catch missing: an error ends the batch
AfterErrorAbortBatch(p, k) == Len(p.toProcess) + 1

\* lines 1119-1121: the catch logs, and the for loop goes on with the next row
AfterError(p, k) == k + 1

\* line 1045: resolveNames ? resolveContactName(msg.sender, log) : null
AskName(p, id) ==
    IF p.resolveNames THEN [p EXCEPT !.asked = Append(@, store[id].sender)] ELSE p

\* line 805, reached from line 1027: the senders of the messages the kept
\* tapbacks refer to, for which getReplyContext asks a name
RECURSIVE TapLookups(_, _)
TapLookups(ids, includeTapbacks) ==
    IF ids = <<>> THEN <<>>
    ELSE LET msg == store[Head(ids)]
             g == msg.associated_message_guid
             rest == TapLookups(Tail(ids), includeTapbacks)
         IN  IF /\ HasTapbackText(msg, includeTapbacks)
                /\ ~Falsy(getReplyContext(g))
                /\ store[g].is_from_me = 0
                /\ ~Falsy(store[g].sender)
             THEN <<store[g].sender>> \o rest
             ELSE rest

\* a plausible slip: the dispatch is started and not awaited, so that poll()
\* goes on to line 1129 while the pipeline still works on the event
SuspendNotAwaited(p, k) ==
    [p EXCEPT !.k = k, !.awaiting = TRUE, !.replies = 0, !.sends = <<>>,
              !.pollTimer = p.running,
              !.timers = IF p.running THEN @ + 1 ELSE @]

\* line 1116: poll() is suspended in the await of dispatchReplyFromConfig
\* for toProcess[k]
Suspend(p, k) ==
    [p EXCEPT !.k = k, !.awaiting = TRUE, !.replies = 0, !.sends = <<>>]

(***************************************************************************)
(* lines 1040-1130, from toProcess[k] on: rows are taken in order until    *)
(* one is awaited in dispatchReplyFromConfig, or the batch ends and the    *)
(* next tick is scheduled.  bad: the rows whose context building throws.   *)
(***************************************************************************)
RECURSIVE RunLoop(_, _, _)
RunLoop(p, k, bad) ==
    IF k > Len(p.toProcess)
    THEN Schedule([p EXCEPT !.toProcess = <<>>, !.k = 0, !.awaiting = FALSE,
                            !.replies = 0, !.sends = <<>>])
    ELSE LET id == p.toProcess[k]
             p1 == AskName(p, id)
         IN  IF ~HasContent(p1, store[id])
             THEN RunLoop([p1 EXCEPT !.skipped = @ \cup {id}], k + 1, bad)
             ELSE IF id \in bad
             THEN LET q == [p1 EXCEPT !.events = Append(@, id),
                                      !.failed = @ \cup {id}]
                  IN  RunLoop(q, AfterError(q, k), bad)
             ELSE Suspend([p1 EXCEPT !.events = Append(@, id),
                                     !.dispatched = Append(@, id),
                                     !.sent = Append(@, InboundEvent(p1, id))], k)

\* a plausible slip: the watermark is raised to the store's maximum before
\* the batch query is made
OnQueryErrorSkipsRows(p) ==
    [p EXCEPT !.queryFailed = TRUE, !.lastRowId = Max(@, MaxRowId)]

\* lines 995-1010 and 1124-1126: a query throws before the state is touched
OnQueryError(p) == [p EXCEPT !.queryFailed = TRUE]

(***************************************************************************)
(* lines 984-1131, the synchronous part of poll(): the new instance and    *)
(* state file.  lease: the lease file as poll reads it; qFail: a store     *)
(* query throws; wFail: writing the state file throws.                     *)
(***************************************************************************)
PollBody(p, file, lease, qFail, wFail, bad) ==
    IF ~p.running THEN [inst |-> [p EXCEPT !.polls = @ - 1], file |-> file]
    ELSE IF ~isActiveInstance(p.instanceId, lease)
    THEN [inst |-> [cleanup(p) EXCEPT !.polls = @ - 1], file |-> file]
    ELSE IF qFail
    THEN [inst |-> Schedule(OnQueryError(p)), file |-> file]
    ELSE IF ~(MaxRowId > p.lastRowId) THEN [inst |-> Schedule(p), file |-> file]
    ELSE WithValue(Fetch(p.lastRowId), LAMBDA msgs :
         WithValue(ScanBatch(p, msgs), LAMBDA r :
         WithValue(KeepLast(r.processedIds, MaxProcessed), LAMBDA ids :
         WithValue([p EXCEPT !.lastRowId = r.lastRowId, !.processedIds = ids,
                             !.batches = IF msgs = <<>> THEN @
                                         ELSE Append(@, msgs),
                             !.asked = TapLookups(r.toProcess, p.includeTapbacks)],
                   LAMBDA q :
             IF wFail THEN [inst |-> Schedule(q), file |-> file]
             ELSE [inst |-> WithValue([q EXCEPT !.toProcess = r.toProcess,
                                                !.queued = @ \o r.toProcess],
                                      LAMBDA q1 : RunLoop(q1, 1, bad)),
                   file |-> JsonState(r.lastRowId, ids)]))))

(***************************************************************************)
(* The actions.  fl bounds what may go wrong in the step: fl.claim the     *)
(* outcomes of writing the lease, fl.q whether a store query may throw,    *)
(* fl.w whether writing the state file may throw, fl.bad whether context   *)
(* building may throw.                                                     *)
(***************************************************************************)
AllFaults == [bad |-> TRUE, q |-> TRUE, claim |-> BOOLEAN, w |-> TRUE]
NoFaults == [bad |-> FALSE, q |-> FALSE, claim |-> {TRUE}, w |-> FALSE]

\* what may go wrong in one synchronous section that may hand over the rows ids:
\* a query throws, or the state write throws, or context building throws for
\* the rows of bad (the three exclude each other: the first two end the tick)
Faults(fl, ids) ==
    {[bad |-> b, q |-> FALSE, w |-> FALSE] :
        b \in IF fl.bad THEN SUBSET ids ELSE {{}}}
    \cup (IF fl.q THEN {[bad |-> {}, q |-> TRUE, w |-> FALSE]} ELSE {})
    \cup (IF fl.w THEN {[bad |-> {}, q |-> FALSE, w |-> TRUE]} ELSE {})

NewRows(last) == {id \in 1..Len(store) : id > last}
RestOf(p) == {p.toProcess[j] : j \in (p.k + 1)..Len(p.toProcess)}

\* the module-level state after a step that took instance p to q: cleanup
\* ran in it, or resolveContactName was called for the numbers of q.asked
ContactsAfter(p, q) ==
    IF p.running /\ ~q.running THEN Cleared ELSE ResolveAll(Contacts, q.asked)

SetContacts(c) ==
    /\ contactsDb' = c.db
    /\ contactCache' = c.cache
    /\ lookups' = c.lookups
    /\ book' = book

\* the step is over
Settled(q) == [q EXCEPT !.asked = <<>>]

\* a row is written to the store by the Messages application; no row
\* refers to itself
Insert(kinds, max) ==
    /\ Len(store) < max
    /\ \E r \in kinds :
          /\ r.associated_message_guid # Len(store) + 1
          /\ store' = Append(store, r)
    /\ UNCHANGED <<leaseFile, stateFile, lastWriter, inst>>
    /\ UNCHANGED contactVars

\* lines 922-1135: startAccount up to its return, the first poll() included
Start(i, toks, channels, tbs, fl) ==
    /\ inst[i].phase = "none"
    /\ ~LoadThrows(stateFile)
    /\ \E tok \in toks, c \in channels, tb \in tbs, claimOk \in fl.claim,
          f \in Faults(fl, NewRows(InitialRowId(LoadState(stateFile).lastRowId))) :
          LET lease1 == claimActiveInstance(tok, leaseFile, claimOk)
              loaded == LoadState(stateFile)
              last == InitialRowId(loaded.lastRowId)
              config == resolveAccount(c)
              p0 == [Fresh EXCEPT !.phase = "started", !.running = TRUE,
                                  !.instanceId = tok, !.channel = c,
                                  !.cfgAllow = config.allowFrom,
                                  !.allowFrom = MapAllowFrom(config.allowFrom),
                                  !.resolveNames = config.resolveContactNames,
                                  !.includeTapbacks = tb,
                                  !.lastRowId = last,
                                  !.processedIds = loaded.processedIds,
                                  !.dbOpen = TRUE, !.claimed = claimOk,
                                  !.polls = 1,
                                  !.coldStart = (stateFile.kind = "absent"),
                                  !.bootFile = stateFile.kind,
                                  !.startMax = MaxRowId, !.startLast = last]
              r == PollBody(p0, stateFile, lease1, f.q, f.w, f.bad)
          IN  /\ leaseFile' = lease1
              /\ lastWriter' = IF claimOk THEN i ELSE lastWriter
              /\ inst' = [inst EXCEPT ![i] = Settled(r.inst)]
              /\ stateFile' = r.file
              /\ SetContacts(ContactsAfter(p0, r.inst))
    /\ UNCHANGED store

\* a plausible slip: poll() is called before the store is opened, and the
\* call that then fails to open it leaves the poller going
StartNoopPolling(i, toks, fl) ==
    /\ inst[i].phase = "none"
    /\ \E tok \in toks, claimOk \in fl.claim :
          /\ leaseFile' = claimActiveInstance(tok, leaseFile, claimOk)
          /\ lastWriter' = IF claimOk THEN i ELSE lastWriter
          /\ inst' = [inst EXCEPT ![i] = [Fresh EXCEPT !.phase = "noop",
                                                       !.instanceId = tok,
                                                       !.claimed = claimOk,
                                                       !.running = TRUE,
                                                       !.pollTimer = TRUE,
                                                       !.timers = 1]]
    /\ UNCHANGED <<store, stateFile>>
    /\ UNCHANGED contactVars

\* lines 922-954: the lease is claimed, then the runtime lacks the dispatch
\* functions or the store cannot be opened, and () => {} is returned
StartNoop(i, toks, fl) ==
    /\ inst[i].phase = "none"
    /\ \E tok \in toks, claimOk \in fl.claim :
          /\ leaseFile' = claimActiveInstance(tok, leaseFile, claimOk)
          /\ lastWriter' = IF claimOk THEN i ELSE lastWriter
          /\ inst' = [inst EXCEPT ![i] = [Fresh EXCEPT !.phase = "noop",
                                                       !.instanceId = tok,
                                                       !.claimed = claimOk]]
    /\ UNCHANGED <<store, stateFile>>
    /\ UNCHANGED contactVars

\* lines 922-958: the lease is claimed, the store opened, and line 958 throws
\* on what JSON.parse gave: the promise of startAccount rejects
StartThrows(i, toks, fl) ==
    /\ inst[i].phase = "none"
    /\ LoadThrows(stateFile)
    /\ \E tok \in toks, claimOk \in fl.claim :
          /\ leaseFile' = claimActiveInstance(tok, leaseFile, claimOk)
          /\ lastWriter' = IF claimOk THEN i ELSE lastWriter
          /\ inst' = [inst EXCEPT ![i] = [Fresh EXCEPT !.phase = "threw",
                                                       !.instanceId = tok,
                                                       !.claimed = claimOk,
                                                       !.dbOpen = TRUE,
                                                       !.bootFile = stateFile.kind]]
    /\ UNCHANGED <<store, stateFile>>
    /\ UNCHANGED contactVars

\* the timer set at line 1129 fires and poll() runs to its first await
Tick(i, fl) ==
    /\ inst[i].pollTimer
    /\ \E f \in Faults(fl, NewRows(inst[i].lastRowId)) :
          LET r == PollBody([inst[i] EXCEPT !.pollTimer = FALSE,
                                            !.timers = @ - 1,
                                            !.polls = @ + 1,
                                            !.queryFailed = FALSE], stateFile,
                            leaseFile, f.q, f.w, f.bad)
          IN  /\ inst' = [inst EXCEPT ![i] = Settled(r.inst)]
              /\ stateFile' = r.file
              /\ SetContacts(ContactsAfter(inst[i], r.inst))
    /\ UNCHANGED <<store, leaseFile, lastWriter>>

\* line 1038: the process dies inside fs.writeFileSync, which truncates the
\* file and then writes the document.  The file is left as it was, cut
\* short, or complete; every instance of the process is gone with it.
CrashInWrite(i) ==
    /\ inst[i].pollTimer
    /\ isActiveInstance(inst[i].instanceId, leaseFile)
    /\ MaxRowId > inst[i].lastRowId
    /\ \E left \in {stateFile, PartialState,
                     PollBody([inst[i] EXCEPT !.pollTimer = FALSE], stateFile,
                              leaseFile, FALSE, FALSE, {}).file} :
          stateFile' = left
    /\ inst' = [j \in Instances |-> Fresh]
    /\ SetContacts(Cleared)
    /\ UNCHANGED <<store, leaseFile, lastWriter>>

\* reply payloads: exists says whether the file of mediaPath exists
Payload(text, mediaPath, exists) ==
    [text |-> text, mediaPath |-> mediaPath, exists |-> exists]

FilePath == <<"/", "f">>
Quoted == <<"a", "\"", "\\", "\r", "b">>

TextPayloads == {Payload(Hi, NULL, FALSE)}
AllPayloads ==
    {Payload(t, m, e) : t \in {NULL, <<>>, Hi, Quoted}, m \in {NULL, FilePath},
                        e \in BOOLEAN}

\* lines 1102-1110: the pipeline calls deliver for a reply payload, which
\* sends the text, if any, and then the file, if it exists
Deliver(i, pays, outs) ==
    /\ inst[i].awaiting
    /\ inst[i].replies < MaxReplies
    /\ \E pay \in pays, o1 \in outs, o2 \in outs :
          LET to == chatId(store[inst[i].toProcess[inst[i].k]])
              s1 == IF Falsy(pay.text) THEN <<>>
                    ELSE <<[outcome |-> o1, fn |-> "sendIMessage",
                            result |-> sendIMessage(to, pay.text, o1)]>>
              s2 == IF Falsy(pay.mediaPath) \/ ~pay.exists THEN <<>>
                    ELSE <<[outcome |-> o2, fn |-> "sendMediaFile",
                            result |-> sendMediaFile(to, pay.mediaPath, o2)]>>
          IN  inst' = [inst EXCEPT ![i].replies = @ + 1,
                                   ![i].sends = @ \o s1 \o s2]
    /\ UNCHANGED <<store, leaseFile, stateFile, lastWriter>>
    /\ UNCHANGED contactVars

\* lines 1116-1117: dispatchReplyFromConfig resolves, markDispatchIdle runs,
\* and the loop goes on to its next await
DispatchResolve(i, fl) ==
    /\ inst[i].awaiting
    /\ \E bad \in IF fl.bad THEN SUBSET RestOf(inst[i]) ELSE {{}} :
          LET p == inst[i]
              q == [p EXCEPT !.idled = @ \cup {p.toProcess[p.k]},
                             !.awaiting = FALSE]
              r == RunLoop(q, p.k + 1, bad)
          IN  /\ inst' = [inst EXCEPT ![i] = Settled(r)]
              /\ SetContacts(ContactsAfter(p, r))
    /\ UNCHANGED <<store, leaseFile, stateFile, lastWriter>>

\* lines 1116-1121: dispatchReplyFromConfig rejects and the catch logs
DispatchReject(i, fl) ==
    /\ inst[i].awaiting
    /\ \E bad \in IF fl.bad THEN SUBSET RestOf(inst[i]) ELSE {{}} :
          LET p == inst[i]
              q == [p EXCEPT !.failed = @ \cup {p.toProcess[p.k]},
                             !.awaiting = FALSE]
              r == RunLoop(q, AfterError(q, p.k), bad)
          IN  /\ inst' = [inst EXCEPT ![i] = Settled(r)]
              /\ SetContacts(ContactsAfter(p, r))
    /\ UNCHANGED <<store, leaseFile, stateFile, lastWriter>>

\* lines 942, 953 and 1134: what startAccount returned, () => {} or cleanup
StopFunction(p) == IF p.phase = "noop" THEN p ELSE cleanup(p)

\* lines 980 and 1134: the abort signal fires or the stop function is called
Stop(i) ==
    /\ inst[i].phase \in {"started", "noop"}
    /\ inst' = [inst EXCEPT ![i] = StopFunction(inst[i])]
    /\ SetContacts(ContactsAfter(inst[i], StopFunction(inst[i])))
    /\ UNCHANGED <<store, leaseFile, stateFile, lastWriter>>

(***************************************************************************)
(* Spec: one poller over the kinds of row the filters tell apart, with     *)
(* every fault: a failed lease write, a failed query, a failed state       *)
(* write, a hand-over that throws or rejects, and an abort.                *)
(***************************************************************************)
MainKinds == {RText, RStranger, RFromMe, RNoSender, RTapRemove, RBlank, RAttachGone}
MainAllows == {<<OwnerTen>>}

Init ==
    /\ store = <<>>
    /\ leaseFile = NoFile
    /\ stateFile = AbsentState
    /\ lastWriter = "none"
    /\ inst = [i \in Instances |-> Fresh]
    /\ NoContacts(NoBook)

Next ==
    \/ Insert(MainKinds, MaxRows)
    \/ Start("A", {"k3f9"}, Channels(MainAllows), {TRUE}, AllFaults)
    \/ Tick("A", AllFaults)
    \/ Deliver("A", TextPayloads, {"ok"})
    \/ DispatchResolve("A", AllFaults)
    \/ DispatchReject("A", AllFaults)
    \/ Stop("A")

Spec == Init /\ [][Next]_vars

(***************************************************************************)
(* SpecAllow: one poller without faults, over the senders and allow lists  *)
(* that take the different paths of normalizePhone and isAllowed.          *)
(***************************************************************************)
AllowKinds == {RText, RStranger, RMail, RNoSender}
AllowLists ==
    {<<>>, <<OwnerTen>>, <<OwnerDashed>>, <<Owner>>, <<Star>>, <<MailX>>,
     <<Stranger, OwnerTen>>}

NextAllow ==
    \/ Insert(AllowKinds, MaxRows)
    \/ Start("A", {"k3f9"}, Channels(AllowLists), {TRUE}, NoFaults)
    \/ Tick("A", NoFaults)
    \/ DispatchResolve("A", NoFaults)

SpecAllow == Init /\ [][NextAllow]_vars

(***************************************************************************)
(* SpecLease: two startAccount calls whose lifetimes overlap, as a hot     *)
(* reload makes them, each drawing its own token.                          *)
(***************************************************************************)
LeaseKinds == {RText, RStranger}
LeaseFaults == [bad |-> FALSE, q |-> FALSE, claim |-> BOOLEAN, w |-> FALSE]

NextLease ==
    \/ Insert(LeaseKinds, MaxLeaseRows)
    \/ \E i \in Instances :
          \/ Start(i, Tokens, Channels({<<OwnerTen>>}), {TRUE}, LeaseFaults)
          \/ StartNoop(i, Tokens, LeaseFaults)
          \/ Tick(i, LeaseFaults)
          \/ DispatchResolve(i, LeaseFaults)
          \/ Stop(i)

SpecLease == Init /\ [][NextLease]_vars

(***************************************************************************)
(* SpecLive: one poller that keeps the lease and is never stopped, whose   *)
(* store queries and state writes succeed.  The timer of line 1129 fires   *)
(* once set, and the pipeline settles every dispatch it is given.          *)
(***************************************************************************)
LiveKinds == {RText, RStranger, RTapAdd, RTapRemove, RBlank}
LiveFaults == [bad |-> TRUE, q |-> FALSE, claim |-> {TRUE}, w |-> FALSE]

TickLive == Tick("A", LiveFaults)
SettleLive == DispatchResolve("A", LiveFaults) \/ DispatchReject("A", LiveFaults)

NextLive ==
    \/ Insert(LiveKinds, MaxRows)
    \/ Start("A", {"k3f9"}, Channels({<<OwnerTen>>, <<>>}), BOOLEAN, LiveFaults)
    \/ TickLive
    \/ Deliver("A", TextPayloads, {"ok"})
    \/ SettleLive

SpecLive ==
    Init /\ [][NextLive]_vars /\ WF_vars(TickLive) /\ WF_vars(SettleLive)

(***************************************************************************)
(* SpecBoot: one startAccount call over every content the state file may   *)
(* have when the process starts.                                           *)
(***************************************************************************)
BootFiles ==
    {AbsentState, UnreadableState, GarbageState, NullState, NumberState,
     PartialState, JsonState(0, <<>>), JsonState(1, <<1>>)}

InitBoot ==
    /\ store = <<>>
    /\ leaseFile = NoFile
    /\ stateFile \in BootFiles
    /\ lastWriter = "none"
    /\ inst = [i \in Instances |-> Fresh]
    /\ NoContacts(NoBook)

NextBoot ==
    \/ Insert(LeaseKinds, MaxRows)
    \/ Start("A", {"k3f9"}, Channels({<<OwnerTen>>}), {TRUE}, NoFaults)
    \/ StartThrows("A", {"k3f9"}, NoFaults)
    \/ Tick("A", NoFaults)
    \/ DispatchResolve("A", NoFaults)

SpecBoot == InitBoot /\ [][NextBoot]_vars

(***************************************************************************)
(* SpecCrash: one poller whose process may die while it writes the state   *)
(* file, and be started again.                                             *)
(***************************************************************************)
NextCrash ==
    \/ Insert(LeaseKinds, MaxRows)
    \/ Start("A", {"k3f9"}, Channels({<<OwnerTen>>}), {TRUE}, NoFaults)
    \/ Tick("A", NoFaults)
    \/ DispatchResolve("A", NoFaults)
    \/ CrashInWrite("A")

SpecCrash == Init /\ [][NextCrash]_vars

(***************************************************************************)
(* SpecTap: one poller without faults over plain rows and rows of every    *)
(* part of the association-type range, with includeTapbacks on or off.     *)
(***************************************************************************)
TapKinds ==
    {RText, RBlank, REmpty, RTapAdd, RTapRef, RTapRemove, RTapNoEmoji, RAssocHigh}

NextTap ==
    \/ Insert(TapKinds, MaxRows)
    \/ Start("A", {"k3f9"}, Channels({<<Owner>>}), BOOLEAN, NoFaults)
    \/ Tick("A", NoFaults)
    \/ DispatchResolve("A", NoFaults)

SpecTap == Init /\ [][NextTap]_vars

(***************************************************************************)
(* SpecGroup: one poller without faults over rows of direct and group      *)
(* conversations, every sender listed.                                     *)
(***************************************************************************)
GroupKinds == {RText, RStranger, RGroupOne, RGroupOneB, RGroupTwo}

NextGroup ==
    \/ Insert(GroupKinds, MaxGroupRows)
    \/ Start("A", {"k3f9"}, Channels({<<Owner, Stranger>>}), {TRUE}, NoFaults)
    \/ Tick("A", NoFaults)
    \/ DispatchResolve("A", NoFaults)

SpecGroup == Init /\ [][NextGroup]_vars

(***************************************************************************)
(* SpecPhone: one poller without faults whose allow list holds one entry   *)
(* out of the shapes normalizePhone tells apart: with and without a        *)
(* leading plus or 1, punctuation, and 0 to MaxDigits digits.              *)
(***************************************************************************)
RECURSIVE Rep(_, _)
Rep(c, k) == IF k = 0 THEN <<>> ELSE <<c>> \o Rep(c, k - 1)

PhoneInputs ==
    {pre \o Rep("5", k) \o suf :
        pre \in {<<>>, <<"+">>, <<"1">>, <<"(">>, <<"+", "1">>, <<"1", "+">>},
        k \in 0..MaxDigits,
        suf \in {<<>>, <<"-">>, <<"+">>}}
    \cup {Owner, OwnerTen, OwnerDashed, MailA, Star}

NextPhone ==
    \/ Insert(LeaseKinds, MaxLeaseRows)
    \/ Start("A", {"k3f9"}, Channels({<<p>> : p \in PhoneInputs}), {TRUE}, NoFaults)
    \/ Tick("A", NoFaults)
    \/ DispatchResolve("A", NoFaults)

SpecPhone == Init /\ [][NextPhone]_vars

(***************************************************************************)
(* SpecBatch: a poller without faults that starts with the watermark an    *)
(* earlier run persisted at row 1, over a store to which more rows than    *)
(* one batch holds were written while no poller ran, and which still grows.*)
(***************************************************************************)
InitBatch ==
    /\ store = [j \in 1..(MaxBatchRows - 2) |-> RText]
    /\ leaseFile = NoFile
    /\ stateFile = JsonState(1, <<1>>)
    /\ lastWriter = "none"
    /\ inst = [i \in Instances |-> Fresh]
    /\ NoContacts(NoBook)

NextBatch ==
    \/ Insert({RText}, MaxBatchRows)
    \/ Start("A", {"k3f9"}, Channels({<<Owner>>}), {TRUE}, NoFaults)
    \/ Tick("A", NoFaults)
    \/ DispatchResolve("A", NoFaults)

SpecBatch == InitBatch /\ [][NextBatch]_vars

(***************************************************************************)
(* SpecWindow: a poller without faults that starts from the state an       *)
(* earlier run persisted after handing over rows 1..95, over a store that  *)
(* got more rows than one batch holds in the meantime and still grows.     *)
(***************************************************************************)
InitWindow ==
    /\ store = [j \in 1..(MaxWindowRows - 2) |-> RText]
    /\ leaseFile = NoFile
    /\ stateFile = JsonState(MaxProcessed - 5, [j \in 1..(MaxProcessed - 5) |-> j])
    /\ lastWriter = "none"
    /\ inst = [i \in Instances |-> Fresh]
    /\ NoContacts(NoBook)

NextWindow ==
    \/ Insert({RText, RStranger}, MaxWindowRows)
    \/ Start("A", {"k3f9"}, Channels({<<Owner>>}), {TRUE}, NoFaults)
    \/ Tick("A", NoFaults)
    \/ DispatchResolve("A", NoFaults)

SpecWindow == InitWindow /\ [][NextWindow]_vars

(***************************************************************************)
(* SpecContacts: one poller without faults that may be stopped, over an    *)
(* address book that is missing, empty, or holds the owner's number with   *)
(* or without a name, with resolveContactNames unset, on or off.           *)
(***************************************************************************)
OwnerName == <<"O", "w", "e", "n">>

Books ==
    {NoBook,
     [found |-> TRUE, rows |-> <<>>],
     [found |-> TRUE, rows |-> <<[number |-> OwnerTen, name |-> OwnerName]>>],
     [found |-> TRUE, rows |-> <<[number |-> OwnerTen, name |-> NULL]>>]}

ContactKinds == {RText, RStranger, RTapRef}

ContactChannels ==
    {Channel(<<Owner, Stranger>>)}
    \cup {[Channel(<<Owner, Stranger>>) EXCEPT
              !.keys = @ \cup {"resolveContactNames"},
              !.resolveContactNames = b] : b \in BOOLEAN}

InitContacts ==
    /\ store = <<>>
    /\ leaseFile = NoFile
    /\ stateFile = AbsentState
    /\ lastWriter = "none"
    /\ inst = [i \in Instances |-> Fresh]
    /\ \E b \in Books : NoContacts(b)

NextContacts ==
    \/ Insert(ContactKinds, MaxRows)
    \/ Start("A", {"k3f9"}, ContactChannels, {TRUE}, NoFaults)
    \/ Tick("A", NoFaults)
    \/ DispatchResolve("A", NoFaults)
    \/ Stop("A")

SpecContacts == InitContacts /\ [][NextContacts]_vars

(***************************************************************************)
(* SpecSend: one poller without faults whose pipeline delivers replies     *)
(* with and without text and file, each platform send ending in any of    *)
(* its outcomes.                                                           *)
(***************************************************************************)
NextSend ==
    \/ Insert({RText, RGroupOne}, MaxLeaseRows)
    \/ Start("A", {"k3f9"}, Channels({<<Owner>>}), {TRUE}, NoFaults)
    \/ Tick("A", NoFaults)
    \/ Deliver("A", AllPayloads, Outcomes)
    \/ DispatchResolve("A", NoFaults)

SpecSend == Init /\ [][NextSend]_vars

(***************************************************************************)
(* SpecConfig: one poller without faults started with one of the channel   *)
(* configurations an operator can write: the one of the README and of the  *)
(* setup wizard, which name the senders under ownerNumbers and             *)
(* allowedNumbers, and those that set allowFrom, with and without          *)
(* dmPolicy.                                                               *)
(***************************************************************************)
\* README lines 78-96
Documented ==
    [Channel(<<>>) EXCEPT !.keys = {"ownerNumbers", "allowedNumbers"},
                          !.ownerNumbers = <<Owner>>,
                          !.allowedNumbers = <<Stranger>>]

\* lines 226 and 234: the file the setup wizard writes
WizardWritten ==
    [Channel(<<>>) EXCEPT !.keys = {"ownerNumbers"}, !.ownerNumbers = <<Owner>>]

Policies == {"allowlist", "open", "disabled"}

WithPolicy(allowFrom, policy) ==
    [Channel(allowFrom) EXCEPT !.keys = {"allowFrom", "dmPolicy"},
                               !.dmPolicy = policy]

ConfigChannels ==
    {Documented, WizardWritten, Channel(<<Owner>>)}
    \cup {WithPolicy(a, pol) : a \in {<<Owner>>, <<Star>>}, pol \in Policies}

NextConfig ==
    \/ Insert({RText, RStranger}, MaxLeaseRows)
    \/ Start("A", {"k3f9"}, ConfigChannels, {TRUE}, NoFaults)
    \/ Tick("A", NoFaults)
    \/ DispatchResolve("A", NoFaults)

SpecConfig == Init /\ [][NextConfig]_vars

(***************************************************************************)
(* Properties.                                                             *)
(***************************************************************************)
NoDup(s) == \A a, b \in 1..Len(s) : a # b => s[a] # s[b]
Elems(s) == {s[j] : j \in 1..Len(s)}
RECURSIVE Flatten(_)
Flatten(ss) == IF ss = <<>> THEN <<>> ELSE Head(ss) \o Flatten(Tail(ss))
Started(i) == inst[i].phase = "started"

\* C1: a row handed to the dispatch pipeline by an instance is never handed
\* to it again by a later tick of that instance.
C1_HandedOnce == \A i \in Instances : NoDup(inst[i].events)

\* a row of one batch was handed over and a later tick fetched another batch
C1_Witness ==
    \E i \in Instances : \E u, v \in 1..Len(inst[i].batches) :
        /\ u < v
        /\ \E x \in Elems(inst[i].batches[u]) : x \in Elems(inst[i].events)

\* C2: the in-memory lastRowId of an instance never decreases, whatever the
\* tick fetched and whatever was filtered out.
C2_WatermarkMonotonic ==
    [][\A i \in Instances :
          Started(i) => inst'[i].lastRowId >= inst[i].lastRowId]_vars

\* a tick raised the watermark over a batch of which nothing was kept
C2_Witness ==
    \E i \in Instances :
        /\ inst[i].batches # <<>>
        /\ inst[i].queued = <<>>
        /\ inst[i].processedIds = <<>>
        /\ inst[i].lastRowId > inst[i].startLast

\* C5: started without a persisted watermark over a store holding rows 1..N,
\* an instance begins at lastRowId = N and never hands over a row <= N.
C5_NoBacklogReplay ==
    \A i \in Instances :
        (Started(i) /\ inst[i].coldStart) =>
            /\ inst[i].startLast = inst[i].startMax
            /\ inst[i].lastRowId >= inst[i].startMax
            /\ \A x \in Elems(inst[i].events) \cup Elems(Flatten(inst[i].batches)) :
                   x > inst[i].startMax

\* a cold start over a non-empty store that later handed over a new row
C5_Witness ==
    \E i \in Instances :
        /\ Started(i) /\ inst[i].coldStart
        /\ inst[i].startMax >= 1
        /\ inst[i].events # <<>>

\* C6: after a tick that fetched a batch, lastRowId is the largest ROWID of
\* that batch, also when every row of it was skipped, and no row is fetched
\* by two ticks.
C6_WatermarkIsBatchMax ==
    \A i \in Instances :
        inst[i].batches # <<>> =>
            /\ inst[i].lastRowId = SeqMax(inst[i].batches[Len(inst[i].batches)])
            /\ NoDup(Flatten(inst[i].batches))

\* a batch of which every row was skipped, followed by a later batch
C6_Witness ==
    \E i \in Instances :
        /\ Len(inst[i].batches) >= 2
        /\ Elems(inst[i].batches[1]) \cap Elems(inst[i].queued) = {}
        /\ inst[i].lastRowId = SeqMax(inst[i].batches[2])

\* the sender is on the configured allow list, as written or as normalized
Listed(sender, cfgAllow) ==
    \E j \in 1..Len(cfgAllow) :
        \/ cfgAllow[j] = sender
        \/ /\ normalizePhone(cfgAllow[j]) # NULL
           /\ normalizePhone(cfgAllow[j]) = normalizePhone(sender)

\* C3 as claimed: once another instance has claimed the lease after instance
\* a did, the tick a begins finds a inactive, cleans up, fetches and hands
\* over nothing and schedules no further tick.
C3_StaleInstanceStops ==
    [][\A a \in Instances :
          (/\ Started(a) /\ inst[a].claimed
           /\ lastWriter # a
           /\ Tick(a, LeaseFaults))
          => /\ ~inst'[a].running
             /\ ~inst'[a].pollTimer
             /\ ~inst'[a].awaiting
             /\ inst'[a].events = inst[a].events
             /\ inst'[a].batches = inst[a].batches]_vars

\* C4: a row whose sender no entry of a star-free allowFrom matches, as
\* written or after normalizePhone, is never handed to the pipeline.
C4_AllowlistEnforced ==
    \A i \in Instances : \A x \in Elems(inst[i].events) :
        \/ InSeq(Star, inst[i].cfgAllow)
        \/ Listed(store[x].sender, inst[i].cfgAllow)

\* a row of an unlisted sender was fetched under a non-empty star-free list
\* that admitted another row
C4_Witness ==
    \E i \in Instances : \E x \in Elems(Flatten(inst[i].batches)) :
        /\ inst[i].cfgAllow # <<>>
        /\ ~InSeq(Star, inst[i].cfgAllow)
        /\ ~Falsy(store[x].sender)
        /\ ~Listed(store[x].sender, inst[i].cfgAllow)
        /\ x \notin Elems(inst[i].events)
        /\ inst[i].events # <<>>

\* row x was inserted after instance i started, by another party, from a
\* listed sender
NewListedRow(i, x) ==
    /\ Started(i)
    /\ x <= Len(store)
    /\ x > inst[i].startMax
    /\ store[x].is_from_me = 0
    /\ Listed(store[x].sender, inst[i].cfgAllow)

Handed(i, x) == x \in Elems(inst[i].events)

C8_OneActiveInstance ==
    LET active == {i \in Instances :
                      /\ Started(i) /\ inst[i].running
                      /\ isActiveInstance(inst[i].instanceId, leaseFile)}
    IN  /\ Cardinality(active) <= 1
        /\ \A i \in active : lastWriter = i

\* C9: an error raised while one event is handed over does not end the
\* batch: once the instance awaits nothing, every row kept for dispatch was
\* handed over (or had no body and no media), the next tick is scheduled
\* while the instance runs, and a failed row lies at or below the watermark
\* and was handed over once.
C9_ErrorIsolated ==
    \A i \in Instances :
        /\ ~inst[i].awaiting =>
              /\ \A x \in Elems(inst[i].queued) :
                     x \in Elems(inst[i].events) \cup inst[i].skipped
              /\ (Started(i) /\ inst[i].running) => inst[i].pollTimer
        /\ \A x \in inst[i].failed :
              /\ inst[i].lastRowId >= x
              /\ Cardinality({j \in 1..Len(inst[i].events) : inst[i].events[j] = x}) = 1

\* a row failed, a later row of the same batch was dispatched to the end,
\* and the next tick is scheduled
C9_Witness ==
    \E i \in Instances : \E u \in 1..Len(inst[i].batches) :
        \E x, y \in Elems(inst[i].batches[u]) :
            /\ x < y
            /\ x \in inst[i].failed
            /\ y \in inst[i].idled
            /\ ~inst[i].awaiting
            /\ inst[i].pollTimer

\* C10: every event for which the pipeline was invoked was invoked once, and
\* once its dispatch is no longer awaited markDispatchIdle has run for it.
C10_IdleAfterDispatch ==
    \A i \in Instances :
        /\ NoDup(inst[i].dispatched)
        /\ \A x \in Elems(inst[i].dispatched) :
              \/ x \in inst[i].idled
              \/ (inst[i].awaiting /\ inst[i].toProcess[inst[i].k] = x)

C12_UnclaimedKeepsPolling ==
    [][\A i \in Instances :
          /\ (inst[i].phase = "none" /\ inst'[i].phase = "started"
                 /\ ~inst'[i].claimed)
             => (inst'[i].running /\ (inst'[i].pollTimer \/ inst'[i].awaiting))
          /\ (Started(i) /\ ~inst[i].claimed /\ inst[i].running
                 /\ ~inst'[i].running)
             => inst' = [inst EXCEPT ![i] = cleanup(inst[i])]]_vars

\* C13 as claimed: whatever the state file holds at startup, startAccount
\* does not throw, and unless the file holds a watermark the instance starts
\* at the store's maximum with nothing in processedIds.
C13_AnyStateFileStarts ==
    \A i \in Instances :
        /\ inst[i].phase # "threw"
        /\ (Started(i) /\ inst[i].bootFile # "json") =>
               /\ inst[i].startLast = inst[i].startMax
               /\ \A x \in Elems(inst[i].processedIds) : x > inst[i].startMax

\* C14 as claimed: whenever the process died while persisting the watermark,
\* the state file is a complete document, the earlier or the new one, never
\* a part of one.
C14_CrashLeavesWholeDocument == stateFile.kind \in {"absent", "json"}

\* C15 as claimed: no event is dispatched for a row whose association type
\* is 3000 or more.
C15_NoEventFrom3000 ==
    \A i \in Instances : \A j \in 1..Len(inst[i].sent) :
        store[inst[i].sent[j].id].associated_message_type < 3000

\* the events dispatched by instance i for row x
SentFor(i, x) == {j \in 1..Len(inst[i].sent) : inst[i].sent[j].id = x}

\* the text of the message row x refers to, or the word message
ReferencedText(x) ==
    LET g == store[x].associated_message_guid
    IN  IF g \in 1..Len(store) /\ store[g].text # NULL /\ store[g].text # <<>>
        THEN store[g].text
        ELSE MessageWord

\* C16: with includeTapbacks on, a fetched row of a listed sender with a type
\* in 2000..2005 is kept, is dispatched once when its batch is through, and
\* the body of its event is the emoji of the type, then  reacted to: "  then
\* the referenced text (or the word message) and a closing quote, also when
\* the row has text of its own.
C16_TapbackBody ==
    \A i \in Instances : \A x \in Elems(Flatten(inst[i].batches)) :
        (/\ inst[i].includeTapbacks
         /\ store[x].associated_message_type \in 2000..2005
         /\ Listed(store[x].sender, inst[i].cfgAllow))
        => /\ x \in Elems(inst[i].queued)
           /\ Cardinality(SentFor(i, x)) <= 1
           /\ ~inst[i].awaiting => Cardinality(SentFor(i, x)) = 1
           /\ \A j \in SentFor(i, x) :
                  inst[i].sent[j].Body =
                      Emoji(store[x].associated_message_type) \o ReactedTo
                          \o ReferencedText(x) \o Quote

\* two tapbacks with text of their own were dispatched: one naming a message
\* with text, one naming none
C16_Witness ==
    \E i \in Instances : \E j, k \in 1..Len(inst[i].sent) :
        /\ store[inst[i].sent[j].id] = RTapRef
        /\ store[1] = RText
        /\ inst[i].sent[j].Body = <<"<like>">> \o ReactedTo \o Hi \o Quote
        /\ store[inst[i].sent[k].id] = RTapAdd
        /\ inst[i].sent[k].Body = <<"<like>">> \o ReactedTo \o MessageWord \o Quote

\* instance i, about to tick, has watermark x - 1 and the store ends with row
\* x, sent by another party in a direct conversation by a listed sender, and
\* the tick fetches it
TickFetchesOne(i, x) ==
    /\ Started(i) /\ inst[i].pollTimer
    /\ inst[i].lastRowId = x - 1
    /\ Len(store) = x
    /\ store[x].is_from_me = 0
    /\ ~isGroup(store[x])
    /\ Listed(store[x].sender, inst[i].cfgAllow)
    /\ inst'[i].batches = Append(inst[i].batches, <<x>>)

\* the tick dispatched one event for row x, with the row's text as body and
\* the direct key, and left the watermark at x
OneTextEvent(i, x) ==
    /\ inst'[i].sent = Append(inst[i].sent,
                              [Body |-> store[x].text, id |-> x,
                               SessionKey |-> DirectKey])
    /\ inst'[i].lastRowId = x

C18_SessionKeys ==
    \A i \in Instances : \A j, k \in 1..Len(inst[i].sent) :
        LET a == store[inst[i].sent[j].id]
            b == store[inst[i].sent[k].id]
            ka == inst[i].sent[j].SessionKey
            kb == inst[i].sent[k].SessionKey
        IN  /\ (~isGroup(a) /\ ~isGroup(b)) => ka = kb
            /\ (isGroup(a) /\ isGroup(b)) =>
                   (ka = kb <=> a.chat_identifier = b.chat_identifier)
            /\ (isGroup(a) /\ ~isGroup(b)) => ka # kb

\* events were dispatched for a direct conversation, for two senders of one
\* group and for a second group
C18_Witness ==
    \E i \in Instances :
        LET rows == {store[inst[i].sent[j].id] : j \in 1..Len(inst[i].sent)}
        IN  /\ \E a \in rows : ~isGroup(a)
            /\ \E a, b \in rows :
                   /\ isGroup(a) /\ isGroup(b)
                   /\ a.chat_identifier # b.chat_identifier
            /\ \E a, b \in rows :
                   /\ isGroup(a) /\ isGroup(b)
                   /\ a.chat_identifier = b.chat_identifier /\ a.sender # b.sender

\* C19: normalizePhone applied to its own result gives that result: for the
\* entries of the allow list as startAccount normalized them, and for an
\* empty entry, whose result is null, again null.
C19_NormalizeIdempotent ==
    \A i \in Instances : \A j \in 1..Len(inst[i].cfgAllow) :
        LET p == inst[i].cfgAllow[j]
        IN  /\ normalizePhone(normalizePhone(p)) = normalizePhone(p)
            /\ IF Falsy(p) THEN normalizePhone(p) = NULL
               ELSE /\ inst[i].allowFrom[j] = normalizePhone(p)
                    /\ normalizePhone(inst[i].allowFrom[j]) = inst[i].allowFrom[j]

\* an instance started with a ten-digit entry written with punctuation
C19_Witness ==
    \E i \in Instances : \E j \in 1..Len(inst[i].cfgAllow) :
        LET p == inst[i].cfgAllow[j]
            n == SelectSeq(p, IsPhoneChar)
        IN  /\ Started(i)
            /\ Len(n) = 10 /\ n # p
            /\ inst[i].allowFrom[j] = <<"+", "1">> \o n
            /\ normalizePhone(inst[i].allowFrom[j]) = inst[i].allowFrom[j]

StrictlyAscending(s) == \A j \in 1..(Len(s) - 1) : s[j] < s[j + 1]

\* the rows of batch b for which instance i called the pipeline, in the
\* order of the calls
DispatchedOf(i, b) == SelectSeq(inst[i].dispatched, LAMBDA x : InSeq(x, b))

\* C20: a tick fetches at most 20 rows, in ascending ROWID order, keeps and
\* hands over at most 20 of them, and hands them over in strictly ascending
\* ROWID order.
C20_BatchBounded ==
    \A i \in Instances :
        /\ Len(inst[i].toProcess) <= BatchLimit
        /\ StrictlyAscending(inst[i].toProcess)
        /\ \A u \in 1..Len(inst[i].batches) :
               /\ Len(inst[i].batches[u]) <= BatchLimit
               /\ StrictlyAscending(inst[i].batches[u])
               /\ Len(DispatchedOf(i, inst[i].batches[u])) <= BatchLimit
               /\ StrictlyAscending(DispatchedOf(i, inst[i].batches[u]))

\* with more than 20 new rows in the store a tick fetched 20, all of them
\* were dispatched, and the next tick fetched from the 21st on
C20_Witness ==
    \E i \in Instances :
        /\ Len(inst[i].batches) >= 2
        /\ Len(inst[i].batches[1]) = BatchLimit
        /\ Len(DispatchedOf(i, inst[i].batches[1])) = BatchLimit
        /\ inst[i].batches[2][1] = inst[i].batches[1][BatchLimit] + 1

\* new is old with identifiers appended that old did not hold and, when that
\* gave more than MaxProcessed, with its oldest identifiers taken away
SlidWindow(old, new) ==
    \E d \in 0..Len(old) :
        LET kept == Len(old) - d
        IN  /\ kept <= Len(new)
            /\ SubSeq(new, 1, kept) = SubSeq(old, d + 1, Len(old))
            /\ \A j \in (kept + 1)..Len(new) : ~InSeq(new[j], old)
            /\ d > 0 => Len(new) = MaxProcessed

\* C21: processedIds, in memory and in the state file, holds at most 100
\* identifiers and none twice, and a step changes it only by appending new
\* identifiers and, when more than 100 would be held, taking away the oldest:
\* the identifiers of the rows the step kept for dispatch are all held.
C21_WindowBounded ==
    /\ [](/\ \A i \in Instances :
               /\ Len(inst[i].processedIds) <= MaxProcessed
               /\ NoDup(inst[i].processedIds)
          /\ Len(stateFile.processedIds) <= MaxProcessed
          /\ NoDup(stateFile.processedIds))
    /\ [][\A i \in Instances :
            /\ Started(i) =>
                   SlidWindow(inst[i].processedIds, inst'[i].processedIds)
            /\ (inst[i].phase = "none" /\ inst'[i].phase = "started") =>
                   SlidWindow(stateFile.processedIds, inst'[i].processedIds)
            /\ \A x \in Elems(inst'[i].queued) \ Elems(inst[i].queued) :
                   InSeq(x, inst'[i].processedIds)]_vars

\* the window is full, its oldest identifiers are gone, and the newest
\* identifier handed over is its last
C21_Witness ==
    \E i \in Instances :
        /\ Len(inst[i].processedIds) = MaxProcessed
        /\ inst[i].processedIds[1] > 1
        /\ Len(inst[i].batches) >= 2
        /\ inst[i].processedIds[MaxProcessed] = inst[i].lastRowId
        /\ stateFile.processedIds = inst[i].processedIds

\* C22: of one instance at most one call of poll() is under way, at most one
\* timer is pending, and never both; while a timer is pending nothing of the
\* last batch is left: every row kept for dispatch was handed over or
\* skipped, and every dispatch has settled with its sends.
C22_TicksNeverOverlap ==
    \A i \in Instances :
        /\ inst[i].polls \in {0, 1}
        /\ inst[i].timers \in {0, 1}
        /\ inst[i].polls + inst[i].timers <= 1
        /\ inst[i].awaiting => inst[i].polls = 1
        /\ inst[i].timers = 1 =>
               /\ ~inst[i].awaiting
               /\ inst[i].toProcess = <<>>
               /\ \A x \in Elems(inst[i].queued) :
                      x \in Elems(inst[i].events) \cup inst[i].skipped
               /\ \A x \in Elems(inst[i].dispatched) :
                      x \in inst[i].idled \cup inst[i].failed

\* the rows of a batch of two or more were dispatched to the end one after
\* the other, a later tick has fetched another batch, and one timer is pending
C22_Witness ==
    \E i \in Instances :
        /\ Len(inst[i].batches) >= 2
        /\ Len(inst[i].batches[1]) >= 2
        /\ Elems(inst[i].batches[1]) \subseteq inst[i].idled
        /\ inst[i].timers = 1

\* C23: the abort signal or the stop function, on a running instance, clears
\* the pending timer, closes the store, closes the address book and empties
\* the contact cache; a stopped instance never has a timer pending, never
\* begins a call of poll() and fetches no batch; stopping a stopped instance
\* changes nothing.
C23_StopIsFinal ==
    [][\A i \in Instances :
          /\ (inst[i].running /\ Stop(i)) =>
                 /\ ~inst'[i].running
                 /\ ~inst'[i].pollTimer /\ inst'[i].timers = 0
                 /\ ~inst'[i].dbOpen
                 /\ contactCache' = {} /\ ~contactsDb'
          /\ (Started(i) /\ ~inst[i].running) =>
                 /\ ~inst'[i].running
                 /\ ~inst'[i].pollTimer /\ inst'[i].timers = 0
                 /\ inst'[i].polls <= inst[i].polls
                 /\ inst'[i].batches = inst[i].batches
                 /\ ~inst'[i].dbOpen
          /\ (Started(i) /\ ~inst[i].running /\ Stop(i)) => UNCHANGED vars]_vars

\* an instance was stopped while it awaited the first dispatch of a batch of
\* two senders, one with a name in the address book; the call of poll() under
\* way went through the rest of the batch and returned without setting a timer
C23_Witness ==
    \E i \in Instances :
        /\ Started(i) /\ ~inst[i].running
        /\ inst[i].polls = 0 /\ inst[i].timers = 0
        /\ \E u \in 1..Len(inst[i].batches) :
               /\ Len(inst[i].batches[u]) >= 2
               /\ Elems(inst[i].batches[u]) \subseteq inst[i].idled
        /\ \E e \in contactCache : e.name = OwnerName

\* C29 as claimed: between two clears of the contact cache the query of the
\* address book runs at most once for a normalized number.
C29_OneQueryPerKey ==
    \A j, k \in 1..Len(lookups) : j # k => lookups[j] # lookups[k]

\* C24: an instance whose startAccount call could not open the store and
\* returned () => {} never runs: it has no timer, no call of poll() under way,
\* no open store, it fetched no batch and handed over nothing, and its stop
\* function changes nothing.
C24_NoopNeverPolls ==
    /\ [](\A i \in Instances :
             inst[i].phase = "noop" =>
                 /\ ~inst[i].running /\ ~inst[i].dbOpen
                 /\ ~inst[i].pollTimer /\ inst[i].timers = 0 /\ inst[i].polls = 0
                 /\ inst[i].batches = <<>>
                 /\ inst[i].events = <<>> /\ inst[i].sent = <<>>)
    /\ [][\A i \in Instances :
            inst[i].phase = "noop" => inst'[i] = inst[i]]_vars

\* an instance returned () => {} and holds the lease while a text row of a
\* listed sender, written after its start, waits in the store
C24_Witness ==
    \E i \in Instances :
        /\ inst[i].phase = "noop"
        /\ isActiveInstance(inst[i].instanceId, leaseFile) /\ lastWriter = i
        /\ Len(store) >= 1 /\ store[Len(store)] = RText
        /\ \A j \in Instances : Len(store) \notin Elems(inst[j].events)

C26_ListedNumbersAccepted ==
    \A i \in Instances : \A x \in Elems(Flatten(inst[i].batches)) :
        (/\ Listed(store[x].sender,
                   inst[i].channel.ownerNumbers \o inst[i].channel.allowedNumbers)
         /\ ~BlankText(store[x].text)
         /\ inst[i].pollTimer)
        => Handed(i, x)

\* C27 as claimed: an instance whose configuration sets dmPolicy to
\* disabled hands no row to the pipeline, whatever allowFrom holds.
C27_DisabledAdmitsNone ==
    \A i \in Instances :
        resolveAccount(inst[i].channel).dmPolicy = "disabled"
        => inst[i].events = <<>>

\* C28 as claimed: the watermark in the state file never covers a row whose
\* dispatch is still under way or still to come in the batch being handed
\* over.
C28_PersistedAfterDispatch ==
    \A i \in Instances :
        (inst[i].awaiting /\ stateFile.kind = "json")
        => \A j \in inst[i].k..Len(inst[i].toProcess) :
               inst[i].toProcess[j] > stateFile.lastRowId

\* C30 as claimed: with starts and ticks of overlapping instances
\* interleaved as whole steps, no ROWID is handed to the pipeline by two
\* different instances.
C30_NoRowByTwoInstances ==
    \A i, j \in Instances :
        i # j => Elems(inst[i].events) \cap Elems(inst[j].events) = {}

\* C31 as claimed: a startAccount call that returns the no-op stop function
\* leaves the lease as it was, and an instance that was the active one
\* before the call is the active one after it.
C31_NoopLeavesLease ==
    [][\A i \in Instances :
          StartNoop(i, Tokens, LeaseFaults)
          => /\ leaseFile' = leaseFile
             /\ \A a \in Instances :
                    (Started(a) /\ inst[a].running
                     /\ isActiveInstance(inst[a].instanceId, leaseFile))
                    => isActiveInstance(inst'[a].instanceId, leaseFile')]_vars

\* C32 as claimed: a fetched row that passed the filters is not lost when the
\* state file cannot be written: between the ticks of a running instance
\* it has been handed to the pipeline or lies above the watermark, where a
\* later tick fetches it.
C32_WriteFailureLosesNoRow ==
    \A i \in Instances : \A x \in Elems(Flatten(inst[i].batches)) :
        (/\ inst[i].running /\ inst[i].pollTimer
         /\ NewListedRow(i, x)
         /\ ~BlankText(store[x].text)
         /\ ~DroppedTapback(store[x], inst[i].includeTapbacks))
        => \/ Handed(i, x)
           \/ x > inst[i].lastRowId

\* C33 as claimed: once cleanup has run for an instance, by the abort
\* signal or the stop function, no step hands a further row of that
\* instance to the pipeline.
C33_NoHandOverAfterStop ==
    [][\A i \in Instances :
          (Started(i) /\ ~inst[i].running)
          => inst'[i].events = inst[i].events]_vars

====
